---- MODULE Spec2Model ----
(***************************************************************************)
(* The two tutorial notebooks of the repository as one state machine:      *)
(*   - the text-classification quantization notebook (GLUE, INCTrainer);    *)
(*   - the PatchTST notebook (Electricity pretraining, ETTh1 transfer).     *)
(* A run executes the code cells of one notebook once, top to bottom.  One  *)
(* action is one top-level statement that calls into a library; a function  *)
(* the notebook defines itself (get_model_size) is one action per           *)
(* statement of its body, and a loop is one action per iteration.  A        *)
(* library call either returns or raises; nothing in the notebooks catches  *)
(* an exception, so a raise ends the run at that statement.                 *)
(***************************************************************************)
EXTENDS Integers, Sequences, FiniteSets, TLC

(* ------------------------------ bounds --------------------------------- *)
\* epochs a train() call may run before the model stops it (the notebooks
\* configure 100 epochs with early stopping)
MaxEpochs == 2
\* parameters of the model backbone (model.model.parameters())
NumBackbone == 2
\* batches dataset.map hands to preprocess_function
MaxBatches == 2

(* ------------------------- program constants --------------------------- *)
context_length == 512
forecast_horizon == 96
pretrain_num_train_epochs == 100
finetune_num_train_epochs == 100
inc_num_train_epochs == 1
max_train_samples == 200
max_eval_samples == 200
MiB == 1048576
\* labels of the checkpoint named by model_checkpoint, an SST-2 (two-class) classifier
checkpoint_num_labels == 2

None == "<None>"

GLUE_TASKS ==
    <<"cola", "mnli", "mnli-mm", "mrpc", "qnli", "qqp", "rte", "sst2", "stsb", "wnli">>

model_checkpoint == "distilbert-base-uncased-finetuned-sst-2-english"

\* the entry of the mismatched MNLI split is keyed "mnli_mm"
task_to_keys_mnli_mm_misspelt ==
    ("cola" :> <<"sentence", None>>) @@
    ("mnli" :> <<"premise", "hypothesis">>) @@
    ("mnli_mm" :> <<"premise", "hypothesis">>) @@
    ("mrpc" :> <<"sentence1", "sentence2">>) @@
    ("qnli" :> <<"question", "sentence">>) @@
    ("qqp" :> <<"question1", "question2">>) @@
    ("rte" :> <<"sentence1", "sentence2">>) @@
    ("sst2" :> <<"sentence", None>>) @@
    ("stsb" :> <<"sentence1", "sentence2">>) @@
    ("wnli" :> <<"sentence1", "sentence2">>)

task_to_keys ==
    ("cola" :> <<"sentence", None>>) @@
    ("mnli" :> <<"premise", "hypothesis">>) @@
    ("mnli-mm" :> <<"premise", "hypothesis">>) @@
    ("mrpc" :> <<"sentence1", "sentence2">>) @@
    ("qnli" :> <<"question", "sentence">>) @@
    ("qqp" :> <<"question1", "question2">>) @@
    ("rte" :> <<"sentence1", "sentence2">>) @@
    ("sst2" :> <<"sentence", None>>) @@
    ("stsb" :> <<"sentence1", "sentence2">>) @@
    ("wnli" :> <<"sentence1", "sentence2">>)

Range(s) == {s[i] : i \in DOMAIN s}

Min(a, b) == IF a <= b THEN a ELSE b

(* ------------------------- pure helper operators ----------------------- *)

\* the configuration name is the task name itself
actual_task_is_task(t) == t

\* actual_task = "mnli" if task == "mnli-mm" else task
actual_task(t) == IF t = "mnli-mm" THEN "mnli" ELSE t

\* metric_name = "pearson" if stsb else "matthews_correlation" if cola else "accuracy"
metric_name(t) ==
    IF t = "stsb" THEN "pearson"
    ELSE IF t = "cola" THEN "matthews_correlation" ELSE "accuracy"

\* save_directory = f"{model_checkpoint.split('/')[-1]}-finetuned-{task}"
\* (model_checkpoint holds no '/', so its last component is the name itself)
save_directory(t) == model_checkpoint \o "-finetuned-" \o t

\* validation_key of the trainer cell
validation_key(t) ==
    IF t = "mnli-mm" THEN "validation_mismatched"
    ELSE IF t = "mnli" THEN "validation_matched" ELSE "validation"

\* round(os.path.getsize("tmp.pt") / (1024*1024), 2), in hundredths of a MB
Round2MB(bytes) ==
    (bytes \div MiB) * 100 + (((bytes % MiB) * 200 + MiB) \div (2 * MiB))

(* sizes os.path.getsize can report for a saved state_dict of the configured
   checkpoint (full precision, quantized) *)
FileSizes == {267855978, 138726001}

TmpPt == "tmp.pt"

(* ------------------------------ parameters ----------------------------- *)
\* parameter 0 is the prediction/classification head, 1..NumBackbone the backbone
Backbone == 1..NumBackbone
Params == 0..NumBackbone

InitWeights == [p \in Params |-> 0]
AllTrainable == [p \in Params |-> TRUE]

NoData == [src |-> "none", split |-> "none", start |-> <<>>, end |-> 0]
NoTrainer ==
    [model |-> 0, output_dir |-> "", train |-> NoData, eval |-> NoData,
     epochs |-> 0, early |-> FALSE, metrics |-> FALSE]
NoIdx ==
    [train_start |-> <<>>, train_end |-> 0, valid_start |-> 0, valid_end |-> 0,
     test_start |-> 0, test_end |-> 0]

VARIABLES
    nb,        \* the notebook being run: "quant" or "patchtst"
    task,      \* quant: the configured GLUE task
    nBatches,  \* quant: batches dataset.map makes of the data
    dataLen,   \* patchtst: len(data) of the Electricity csv
    pc,        \* the statement about to run
    raised,    \* an exception left a cell; the run has stopped
    calls,     \* library calls that returned, in order
    paths,     \* files and directories that exist
    ckpt,      \* directory -> what save_model / save_pretrained wrote there
    heap,      \* model objects: weights and requires_grad per parameter
    g,         \* the notebook's global names
    run,       \* the train() call in progress
    evals      \* evaluate() calls that returned: dataset and weights evaluated

vars == <<nb, task, nBatches, dataLen, pc, raised, calls, paths, ckpt, heap, g, run, evals>>

config == <<nb, task, nBatches, dataLen>>


(* ----------------------- statements, in file order ---------------------- *)
\* the statements of the quantization notebook, top to bottom
QuantStmts ==
    <<"q_load_dataset", "q_load_metric", "q_telemetry", "q_tokenizer", "q_sample",
      "q_map", "q_model", "q_qconfig", "q_args", "q_trainer", "q_deepcopy",
      "q_train", "q_evaluate",
      "gms_fp_save", "gms_fp_getsize", "gms_fp_remove",
      "gms_q_save", "gms_q_getsize", "gms_q_remove",
      "q_print_sizes", "q_save_model", "q_load_inc", "q_load_ort", "done">>

\* the statements of the PatchTST notebook, top to bottom
PatchStmts ==
    <<"p_set_seed", "p_read_csv", "p_split",
      "p_select_train", "p_select_valid", "p_select_test",
      "p_preprocessor", "p_preprocessor_train",
      "p_dataset_train", "p_dataset_valid", "p_dataset_test",
      "p_config", "p_model", "p_training_args", "p_early_stopping", "p_trainer",
      "p_train", "p_evaluate", "p_makedirs", "p_save_model",
      "e_indices", "e_read_csv",
      "e_select_train", "e_select_valid", "e_select_test",
      "e_preprocessor", "e_preprocessor_train",
      "e_dataset_train", "e_dataset_valid", "e_dataset_test",
      "z_from_pretrained", "z_training_args", "z_early_stopping", "z_trainer",
      "z_evaluate",
      "lp_freeze", "lp_train", "lp_evaluate",
      "lp_makedirs", "lp_save_model", "pp_makedirs", "pp_save_pretrained",
      "ft_from_pretrained", "ft_trainer", "ft_train", "ft_evaluate",
      "ft_makedirs", "ft_save_model", "done">>

Stmts(n) == IF n = "quant" THEN QuantStmts ELSE PatchStmts

IndexOf(seq, l) == CHOOSE i \in DOMAIN seq : seq[i] = l

\* the model is built before the dataset is tokenized
StmtsModelFirst(n) ==
    LET s == Stmts(n) IN
    [i \in DOMAIN s |->
        IF s[i] = "q_map" THEN "q_model" ELSE IF s[i] = "q_model" THEN "q_map"
        ELSE IF s[i] = "p_dataset_test" THEN "p_config"
        ELSE IF s[i] = "p_config" THEN "p_dataset_test" ELSE s[i]]

NextPcModelFirst(l) == LET s == StmtsModelFirst(nb) IN s[IndexOf(s, l) + 1]

\* cells run once, top to bottom: the statement after l
NextPc(l) == LET s == Stmts(nb) IN s[IndexOf(s, l) + 1]

\* statements that make no library call that can fail
PureStmts == {"p_split", "e_indices", "lp_freeze", "q_print_sizes", "done"}

(* ------------------------------ call log ------------------------------- *)
\* a call made by a statement of a cell
Call(fn, arg) == [fn |-> fn, arg |-> arg, by |-> "cell", at |-> pc]
\* a call made inside a function the library calls back
Callback(fn, arg) == [fn |-> fn, arg |-> arg, by |-> "callback", at |-> pc]

NoRun == [epoch |-> 0, snaps |-> <<>>]

G0 ==
    [dataset |-> "", metric |-> "", tokenizer |-> "",
     sentence1_key |-> "", sentence2_key |-> "", encoded_dataset |-> "",
     model |-> 0, quantization_config |-> FALSE,
     save_directory |-> "", output_dir |-> "", metric_for_best_model |-> "",
     trainer |-> NoTrainer, fp_model |-> 0,
     model_size |-> 0, fp_model_size |-> 0, q_model_size |-> 0,
     pytorch_model |-> "", onnx_model |-> "",
     data |-> "", idx |-> NoIdx,
     train_data |-> NoData, valid_data |-> NoData, test_data |-> NoData,
     preprocessor |-> "",
     train_dataset |-> NoData, valid_dataset |-> NoData, test_dataset |-> NoData,
     save_dir |-> "", early_stopping |-> FALSE,
     finetune_forecast_model |-> 0, finetune_output_dir |-> "", param |-> 0,
     finetune_forecast_trainer |-> NoTrainer]

(* lengths of the Electricity dataframe: shorter than the context, around the
   length where 70% of the rows reach the context length, multiples of ten
   (where int(len * 0.7) is sensitive to rounding) and the length of the
   published ECL.csv *)
DataLens == {90, 511, 730, 731, 732, 1000, 26304}

Init ==
    /\ nb \in {"quant", "patchtst"}
    /\ IF nb = "quant"
       THEN task \in Range(GLUE_TASKS) /\ nBatches \in 1..MaxBatches /\ dataLen = 0
       ELSE task = "sst2" /\ nBatches = 1 /\ dataLen \in DataLens
    /\ pc = Stmts(nb)[1]
    /\ raised = FALSE
    /\ calls = <<>>
    /\ paths = {}
    /\ ckpt = <<>>
    /\ heap = <<>>
    /\ g = G0
    /\ run = NoRun
    /\ evals = <<>>

At(l) == pc = l /\ ~raised

\* a statement that only calls and binds names
Binds(l, cs, g2) ==
    /\ At(l)
    /\ calls' = calls \o cs
    /\ g' = g2
    /\ pc' = NextPc(l)
    /\ UNCHANGED <<config, raised, paths, ckpt, heap, run, evals>>

(* ---------------- functions the notebooks define themselves ------------- *)
\* def preprocess_function(examples): one tokenizer call on one or two columns
preprocess_function(k1, k2) ==
    <<Callback("tokenizer", IF k2 = None THEN <<k1>> ELSE <<k1, k2>>)>>

\* the regression task is treated like the classification tasks
compute_metrics_always_argmax(t) ==
    <<Callback("np.argmax", <<>>), Callback("metric.compute", <<>>)>>

\* def compute_metrics(eval_pred)
compute_metrics(t) ==
    <<IF t # "stsb"
      THEN Callback("np.argmax", <<>>)
      ELSE Callback("ndarray.__getitem__", <<>>),
      Callback("metric.compute", <<>>)>>

RECURSIVE Repeat(_, _)
Repeat(cs, n) == IF n = 0 THEN <<>> ELSE cs \o Repeat(cs, n - 1)

(* ------------------------ library behaviour used ------------------------ *)
\* the checkpoint-<step> directories train() writes below output_dir
CheckpointDir(dir) == dir \o "#checkpoint"

\* one epoch of Trainer.train(): the optimizer steps the parameters that
\* require gradients, the epoch is evaluated and a checkpoint is written
EpochWeights(m) ==
    [p \in Params |-> IF m.grad[p] THEN m.w[p] + 1 ELSE m.w[p]]

TrainEpoch(l, tr) ==
    /\ At(l)
    /\ tr.model \in DOMAIN heap
    /\ run.epoch < Min(tr.epochs, MaxEpochs)
    /\ LET w2 == EpochWeights(heap[tr.model]) IN
         /\ heap' = [heap EXCEPT ![tr.model].w = w2]
         /\ run' = [epoch |-> run.epoch + 1, snaps |-> Append(run.snaps, w2)]
    /\ paths' = paths \cup {tr.output_dir, CheckpointDir(tr.output_dir)}
    /\ calls' = calls \o (IF run.epoch = 0 THEN <<Call("train", <<tr.train.src>>)>> ELSE <<>>)
                      \o (IF tr.metrics THEN compute_metrics(task) ELSE <<>>)
    /\ UNCHANGED <<config, pc, raised, ckpt, g, evals>>

\* train() returns: after the last epoch, or earlier when the early stopping
\* callback ends it; load_best_model_at_end reloads the best epoch's checkpoint
TrainEnd(l, tr, quantize) ==
    /\ At(l)
    /\ run.epoch >= 1
    /\ tr.early \/ run.epoch = Min(tr.epochs, MaxEpochs)
    /\ \E best \in 1..run.epoch :
         heap' = [heap EXCEPT ![tr.model].w = run.snaps[best],
                              ![tr.model].q = quantize \/ @]
    /\ run' = NoRun
    /\ pc' = NextPc(l)
    /\ UNCHANGED <<config, raised, calls, paths, ckpt, g, evals>>

Evaluate(l, tr, data) ==
    /\ At(l)
    /\ tr.model \in DOMAIN heap
    /\ evals' = Append(evals, [data |-> data, model |-> tr.model,
                               w |-> heap[tr.model].w,
                               from |-> heap[tr.model].from, at |-> l])
    /\ calls' = calls \o <<Call("evaluate", <<data.src, data.split>>)>>
                      \o (IF tr.metrics THEN compute_metrics(task) ELSE <<>>)
    /\ pc' = NextPc(l)
    /\ UNCHANGED <<config, raised, paths, ckpt, heap, g, run>>

Saved(m, onnx) == [w |-> m.w, grad |-> m.grad, q |-> m.q, onnx |-> onnx]

\* trainer.save_model(dir): the trainer's model, as it is now, written to dir
SaveModel(l, tr, dir, onnx) ==
    /\ At(l)
    /\ tr.model \in DOMAIN heap
    /\ paths' = paths \cup {dir}
    /\ ckpt' = (dir :> Saved(heap[tr.model], onnx)) @@ ckpt
    /\ calls' = calls \o <<Call("save_model", <<dir>>)>>
    /\ pc' = NextPc(l)
    /\ UNCHANGED <<config, raised, heap, g, run, evals>>

MakeDirs(l, dir) ==
    /\ At(l)
    /\ paths' = paths \cup {dir}
    /\ calls' = calls \o <<Call("os.makedirs", <<dir>>)>>
    /\ g' = [g EXCEPT !.save_dir = dir]
    /\ pc' = NextPc(l)
    /\ UNCHANGED <<config, raised, ckpt, heap, run, evals>>

\* a model object freshly built from what a directory holds; every parameter
\* of a freshly built module requires gradients
Loaded(dir) == [w |-> ckpt[dir].w, grad |-> AllTrainable, q |-> ckpt[dir].q, from |-> dir]

(* ---------------- the quantization notebook, cell by cell ---------------- *)
\* a model object that was not read from a directory a notebook wrote
FreshModel == [w |-> InitWeights, grad |-> AllTrainable, q |-> FALSE, from |-> ""]

\* dataset = load_dataset("glue", actual_task)
q_load_dataset ==
    Binds("q_load_dataset",
          <<Call("load_dataset", <<"glue", actual_task(task)>>)>>,
          [g EXCEPT !.dataset = actual_task(task)])

\* metric = evaluate.load("glue", actual_task)
q_load_metric ==
    Binds("q_load_metric",
          <<Call("evaluate.load", <<"glue", actual_task(task)>>)>>,
          [g EXCEPT !.metric = actual_task(task)])

q_telemetry ==
    Binds("q_telemetry", <<Call("send_example_telemetry", <<>>)>>, g)

\* tokenizer = AutoTokenizer.from_pretrained(model_checkpoint)
q_tokenizer ==
    Binds("q_tokenizer",
          <<Call("AutoTokenizer.from_pretrained", <<model_checkpoint>>)>>,
          [g EXCEPT !.tokenizer = model_checkpoint])

\* sentence1_key, sentence2_key = task_to_keys[task]; one sentence or two are printed
q_sample ==
    LET k1 == task_to_keys[task][1]
        k2 == task_to_keys[task][2]
    IN Binds("q_sample",
             IF k2 = None
             THEN <<Call("print", <<k1>>)>>
             ELSE <<Call("print", <<k1>>), Call("print", <<k2>>)>>,
             [g EXCEPT !.sentence1_key = k1, !.sentence2_key = k2])

\* encoded_dataset = dataset.map(preprocess_function, batched=True)
q_map ==
    Binds("q_map",
          <<Call("dataset.map", <<g.dataset>>)>>
             \o Repeat(preprocess_function(g.sentence1_key, g.sentence2_key), nBatches),
          [g EXCEPT !.encoded_dataset = g.dataset])

\* model = AutoModelForSequenceClassification.from_pretrained(model_checkpoint)
q_model ==
    /\ At("q_model")
    /\ heap' = Append(heap, FreshModel)
    /\ g' = [g EXCEPT !.model = Len(heap) + 1]
    /\ calls' = calls \o
         <<Call("AutoModelForSequenceClassification.from_pretrained", <<model_checkpoint>>)>>
    /\ pc' = NextPc("q_model")
    /\ UNCHANGED <<config, raised, paths, ckpt, run, evals>>

q_qconfig ==
    Binds("q_qconfig", <<Call("QuantizationAwareTrainingConfig", <<>>)>>,
          [g EXCEPT !.quantization_config = TRUE])

\* metric_name, save_directory, args = TrainingArguments(output_dir = save_directory, ...)
q_args ==
    Binds("q_args", <<Call("TrainingArguments", <<save_directory(task)>>)>>,
          [g EXCEPT !.save_directory = save_directory(task),
                    !.output_dir = save_directory(task),
                    !.metric_for_best_model = metric_name(task)])

\* trainer = INCTrainer(model=model, args=args, train_dataset=..., eval_dataset=..., ...)
q_trainer ==
    LET train == [src |-> g.encoded_dataset, split |-> "train",
                  start |-> <<0>>, end |-> max_train_samples]
        eval == [src |-> g.encoded_dataset, split |-> validation_key(task),
                 start |-> <<0>>, end |-> max_eval_samples]
    IN Binds("q_trainer",
             <<Call("select", <<"train">>), Call("select", <<validation_key(task)>>),
               Call("INCTrainer", <<>>)>>,
             [g EXCEPT !.trainer =
                 [model |-> g.model, output_dir |-> g.output_dir,
                  train |-> train, eval |-> eval, epochs |-> inc_num_train_epochs,
                  early |-> FALSE, metrics |-> TRUE]])

\* fp_model = copy.deepcopy(model)
q_deepcopy ==
    /\ At("q_deepcopy")
    /\ g.model \in DOMAIN heap
    /\ heap' = Append(heap, heap[g.model])
    /\ g' = [g EXCEPT !.fp_model = Len(heap) + 1]
    /\ calls' = calls \o <<Call("copy.deepcopy", <<>>)>>
    /\ pc' = NextPc("q_deepcopy")
    /\ UNCHANGED <<config, raised, paths, ckpt, run, evals>>

\* trainer.train()
q_train_epoch == TrainEpoch("q_train", g.trainer)
q_train_end == TrainEnd("q_train", g.trainer, TRUE)

\* trainer.evaluate()
q_evaluate == Evaluate("q_evaluate", g.trainer, g.trainer.eval)

GmsModel(which) == IF which = "fp" THEN g.fp_model ELSE g.trainer.model

\* get_model_size: torch.save(model.state_dict(), "tmp.pt")
gms_save(which) ==
    /\ At("gms_" \o which \o "_save")
    /\ GmsModel(which) \in DOMAIN heap
    /\ paths' = paths \cup {TmpPt}
    /\ calls' = calls \o <<Call("torch.save", <<TmpPt>>)>>
    /\ pc' = NextPc(pc)
    /\ UNCHANGED <<config, raised, ckpt, heap, g, run, evals>>

\* get_model_size: model_size = os.path.getsize("tmp.pt") / (1024*1024)
gms_getsize(which) ==
    /\ At("gms_" \o which \o "_getsize")
    /\ TmpPt \in paths
    /\ \E bytes \in FileSizes : g' = [g EXCEPT !.model_size = bytes]
    /\ calls' = calls \o <<Call("os.path.getsize", <<TmpPt>>)>>
    /\ pc' = NextPc(pc)
    /\ UNCHANGED <<config, raised, paths, ckpt, heap, run, evals>>

\* get_model_size: os.remove("tmp.pt"); return round(model_size, 2)
gms_remove(which) ==
    /\ At("gms_" \o which \o "_remove")
    /\ TmpPt \in paths
    /\ paths' = paths \ {TmpPt}
    /\ g' = IF which = "fp"
            THEN [g EXCEPT !.fp_model_size = Round2MB(g.model_size)]
            ELSE [g EXCEPT !.q_model_size = Round2MB(g.model_size)]
    /\ calls' = calls \o <<Call("os.remove", <<TmpPt>>)>>
    /\ pc' = NextPc(pc)
    /\ UNCHANGED <<config, raised, ckpt, heap, run, evals>>

\* the two prints; fp_model_size / q_model_size raises ZeroDivisionError on 0
q_print_sizes ==
    /\ At("q_print_sizes")
    /\ IF g.q_model_size = 0
       THEN raised' = TRUE /\ UNCHANGED <<pc, calls>>
       ELSE /\ calls' = calls \o <<Call("print", <<>>), Call("print", <<>>)>>
            /\ pc' = NextPc("q_print_sizes")
            /\ UNCHANGED raised
    /\ UNCHANGED <<config, paths, ckpt, heap, g, run, evals>>

\* the save cell is left out
q_save_model_skipped == Binds("q_save_model", <<>>, g)

\* trainer.save_model(save_onnx_model=True): written to args.output_dir
q_save_model ==
    SaveModel("q_save_model", g.trainer, g.trainer.output_dir, TRUE)

\* pytorch_model = INCModelForSequenceClassification.from_pretrained(save_directory)
q_load_inc ==
    /\ g.save_directory \in DOMAIN ckpt
    /\ Binds("q_load_inc",
             <<Call("INCModelForSequenceClassification.from_pretrained",
                    <<g.save_directory>>)>>,
             [g EXCEPT !.pytorch_model = g.save_directory])

\* onnx_model = ORTModelForSequenceClassification.from_pretrained(save_directory)
q_load_ort ==
    /\ g.save_directory \in DOMAIN ckpt
    /\ ckpt[g.save_directory].onnx
    /\ Binds("q_load_ort",
             <<Call("ORTModelForSequenceClassification.from_pretrained",
                    <<g.save_directory>>)>>,
             [g EXCEPT !.onnx_model = g.save_directory])

QuantNext ==
    \/ q_load_dataset \/ q_load_metric \/ q_telemetry \/ q_tokenizer \/ q_sample
    \/ q_map \/ q_model \/ q_qconfig \/ q_args \/ q_trainer \/ q_deepcopy
    \/ q_train_epoch \/ q_train_end \/ q_evaluate
    \/ \E which \in {"fp", "q"} : gms_save(which)
    \/ \E which \in {"fp", "q"} : gms_getsize(which)
    \/ \E which \in {"fp", "q"} : gms_remove(which)
    \/ q_print_sizes \/ q_save_model \/ q_load_inc \/ q_load_ort

(* ------------------- the PatchTST notebook, cell by cell ----------------- *)
RECURSIVE Pow2Floor(_)
\* the largest power of two that is at most k (k >= 1)
Pow2Floor(k) == IF k < 2 THEN 1 ELSE 2 * Pow2Floor(k \div 2)

\* int(n * 0.7) in IEEE double arithmetic.  The double nearest 0.7 lies below
\* 0.7 by 0.4 * 2^-53, so when 7n/10 is an integer K the exact product lies
\* below K by (4/7) K 2^-53 and is rounded to the double below K exactly when
\* that exceeds half the spacing of the doubles below K, i.e. 4K > 7 * 2^e for
\* 2^e <= K < 2^(e+1); int() then truncates to K - 1.
IntTimes07(n) ==
    LET K == (7 * n) \div 10 IN
    IF n % 10 = 0 /\ K > 0 /\ 4 * K > 7 * Pow2Floor(K) THEN K - 1 ELSE K

\* int(n * 0.2): the double nearest 0.2 lies above 0.2, the product never
\* drops below an integer quotient
IntTimes02(n) == n \div 5

\* the evaluation splits start where the preceding split ends
ElectricitySplitNoShift(len) ==
    LET num_train == IntTimes07(len)
        num_test == IntTimes02(len)
        num_valid == len - num_train - num_test
        border1s == <<0, num_train, len - num_test>>
        border2s == <<num_train, num_train + num_valid, len>>
    IN [train_start |-> <<border1s[1]>>, train_end |-> border2s[1],
        valid_start |-> border1s[2], valid_end |-> border2s[2],
        test_start |-> border1s[3], test_end |-> border2s[3]]

\* num_train, num_test, num_valid, border1s, border2s and the six indices
ElectricitySplit(len) ==
    LET num_train == IntTimes07(len)
        num_test == IntTimes02(len)
        num_valid == len - num_train - num_test
        border1s == <<0, num_train - context_length, len - num_test - context_length>>
        border2s == <<num_train, num_train + num_valid, len>>
    IN [train_start |-> <<border1s[1]>>, train_end |-> border2s[1],
        valid_start |-> border1s[2], valid_end |-> border2s[2],
        test_start |-> border1s[3], test_end |-> border2s[3]]

\* the ETTh1 indices; train_start_index = None is the beginning of the dataset
ETTh1Split ==
    [train_start |-> <<>>, train_end |-> 12 * 30 * 24,
     valid_start |-> 12 * 30 * 24 - context_length,
     valid_end |-> 12 * 30 * 24 + 4 * 30 * 24,
     test_start |-> 12 * 30 * 24 + 4 * 30 * 24 - context_length,
     test_end |-> 12 * 30 * 24 + 8 * 30 * 24]

\* ForecastDFDataset: the first window takes context_length rows from the
\* start of the split and forecasts the row after them
FirstForecastRow(start) == start + context_length

PretrainOutputDir == "./checkpoint/patchtst/electricity/pretrain/output/"
FinetuneOutputDir == "./checkpoint/patchtst/transfer/finetune/output/"
\* the model is saved under a name the reloads do not use
SaveDirPretrainOther == "patchtst/electricity/model/pretrained/"
\* save_dir of the "Save model" cell of Part 1
SaveDirPretrain == "patchtst/electricity/model/pretrain/"
\* the directory from_pretrained is given for zero-shot forecasting
ZeroShotLoadDir == "patchtst/electricity/model/pretrain/"
\* the directory from_pretrained is given for the full fine-tune
FinetuneLoadDir == "patchtst/electricity/model/pretrain/"
LinearProbeDir(ds) == "patchtst/electricity/model/transfer/" \o ds \o "/model/linear_probe/"
PreprocessorDir(ds) == "patchtst/electricity/model/transfer/" \o ds \o "/preprocessor/"
FineTuningDir(ds) == "patchtst/electricity/model/transfer/" \o ds \o "/model/fine_tuning/"

Splits == {"train", "valid", "test"}
Parts == {"p", "e"}

p_set_seed == Binds("p_set_seed", <<Call("set_seed", <<>>)>>, g)

\* data = pd.read_csv(dataset_path, ...) of ~/data/ECL.csv
p_read_csv ==
    Binds("p_read_csv", <<Call("pd.read_csv", <<"ECL">>)>>, [g EXCEPT !.data = "ECL"])

\* the "get split" arithmetic of the same cell
p_split ==
    Binds("p_split", <<>>, [g EXCEPT !.idx = ElectricitySplit(dataLen)])

\* dataset = "ETTh1"; the print; dataset_path; the six indices
e_indices ==
    Binds("e_indices", <<Call("print", <<>>)>>,
          [g EXCEPT !.dataset = "ETTh1", !.idx = ETTh1Split])

e_read_csv ==
    Binds("e_read_csv", <<Call("pd.read_csv", <<g.dataset>>)>>,
          [g EXCEPT !.data = g.dataset])

Selected(split) ==
    [src |-> g.data, split |-> split,
     start |-> IF split = "train" THEN g.idx.train_start
               ELSE IF split = "valid" THEN <<g.idx.valid_start>>
               ELSE <<g.idx.test_start>>,
     end |-> IF split = "train" THEN g.idx.train_end
             ELSE IF split = "valid" THEN g.idx.valid_end
             ELSE g.idx.test_end]

\* train_data / valid_data / test_data = select_by_index(data, start_index, end_index)
select_by_index(part, split) ==
    Binds(part \o "_select_" \o split,
          <<Call("select_by_index", <<g.data, split>>)>>,
          IF split = "train" THEN [g EXCEPT !.train_data = Selected(split)]
          ELSE IF split = "valid" THEN [g EXCEPT !.valid_data = Selected(split)]
          ELSE [g EXCEPT !.test_data = Selected(split)])

\* time_series_preprocessor = TimeSeriesPreprocessor(...)
new_preprocessor(part) ==
    Binds(part \o "_preprocessor", <<Call("TimeSeriesPreprocessor", <<>>)>>,
          [g EXCEPT !.preprocessor = "untrained"])

\* time_series_preprocessor = time_series_preprocessor.train(train_data)
preprocessor_train(part) ==
    Binds(part \o "_preprocessor_train",
          <<Call("time_series_preprocessor.train", <<g.train_data.src>>)>>,
          [g EXCEPT !.preprocessor = g.train_data.src])

\* train_dataset / valid_dataset / test_dataset = ForecastDFDataset(preprocess(...), ...)
forecast_dataset(part, split) ==
    Binds(part \o "_dataset_" \o split,
          <<Call("time_series_preprocessor.preprocess", <<split>>),
            Call("ForecastDFDataset", <<split>>)>>,
          IF split = "train" THEN [g EXCEPT !.train_dataset = g.train_data]
          ELSE IF split = "valid" THEN [g EXCEPT !.valid_dataset = g.valid_data]
          ELSE [g EXCEPT !.test_dataset = g.test_data])

p_config == Binds("p_config", <<Call("PatchTSTConfig", <<>>)>>, g)

\* model = PatchTSTForPrediction(config): randomly initialised
p_model ==
    /\ At("p_model")
    /\ heap' = Append(heap, FreshModel)
    /\ g' = [g EXCEPT !.model = Len(heap) + 1]
    /\ calls' = calls \o <<Call("PatchTSTForPrediction", <<>>)>>
    /\ pc' = NextPc("p_model")
    /\ UNCHANGED <<config, raised, paths, ckpt, run, evals>>

p_training_args ==
    Binds("p_training_args", <<Call("TrainingArguments", <<PretrainOutputDir>>)>>,
          [g EXCEPT !.output_dir = PretrainOutputDir])

\* early_stopping_callback = EarlyStoppingCallback(...), in Part 1 and in Part 2
early_stopping(part) ==
    Binds(part \o "_early_stopping", <<Call("EarlyStoppingCallback", <<>>)>>,
          [g EXCEPT !.early_stopping = TRUE])

\* trainer = Trainer(model=model, args=training_args, train_dataset, eval_dataset, callbacks)
p_trainer ==
    Binds("p_trainer", <<Call("Trainer", <<>>)>>,
          [g EXCEPT !.trainer =
              [model |-> g.model, output_dir |-> g.output_dir,
               train |-> g.train_dataset, eval |-> g.valid_dataset,
               epochs |-> pretrain_num_train_epochs,
               early |-> g.early_stopping, metrics |-> FALSE]])

p_train_epoch == TrainEpoch("p_train", g.trainer)
p_train_end == TrainEnd("p_train", g.trainer, FALSE)

\* results = trainer.evaluate(test_dataset)
p_evaluate == Evaluate("p_evaluate", g.trainer, g.test_dataset)

\* save_dir = "patchtst/electricity/model/pretrain/"; os.makedirs(save_dir, exist_ok=True)
p_makedirs == MakeDirs("p_makedirs", SaveDirPretrain)
\* trainer.save_model(save_dir)
p_save_model == SaveModel("p_save_model", g.trainer, g.save_dir, FALSE)

\* finetune_forecast_model = PatchTSTForPrediction.from_pretrained(dir, ...)
FromPretrained(l, dir) ==
    /\ At(l)
    /\ dir \in DOMAIN ckpt
    /\ heap' = Append(heap, Loaded(dir))
    /\ g' = [g EXCEPT !.finetune_forecast_model = Len(heap) + 1]
    /\ calls' = calls \o <<Call("PatchTSTForPrediction.from_pretrained", <<dir>>)>>
    /\ pc' = NextPc(l)
    /\ UNCHANGED <<config, raised, paths, ckpt, run, evals>>

z_from_pretrained == FromPretrained("z_from_pretrained", ZeroShotLoadDir)

z_training_args ==
    Binds("z_training_args", <<Call("TrainingArguments", <<FinetuneOutputDir>>)>>,
          [g EXCEPT !.finetune_output_dir = FinetuneOutputDir])

\* the Trainer is given the model object of Part 1
z_trainer_model_part1 == g.model
\* the Trainer is given the model of the trainer it replaces
ft_trainer_model_stale == g.finetune_forecast_trainer.model

\* the model the zero-shot / linear-probing Trainer is given
z_trainer_model == g.finetune_forecast_model
\* the model the fine-tuning Trainer is given
ft_trainer_model == g.finetune_forecast_model

\* finetune_forecast_trainer = Trainer(model=finetune_forecast_model, args=finetune_forecast_args, ...)
NewFinetuneTrainer(l, m) ==
    Binds(l, <<Call("Trainer", <<>>)>>,
          [g EXCEPT !.finetune_forecast_trainer =
              [model |-> m, output_dir |-> g.finetune_output_dir,
               train |-> g.train_dataset, eval |-> g.valid_dataset,
               epochs |-> finetune_num_train_epochs,
               early |-> g.early_stopping, metrics |-> FALSE]])

z_trainer == NewFinetuneTrainer("z_trainer", z_trainer_model)

\* result = finetune_forecast_trainer.evaluate(test_dataset), before any training
z_evaluate == Evaluate("z_evaluate", g.finetune_forecast_trainer, g.test_dataset)

\* the loop leaves the last backbone parameter trainable
lp_freeze_skips_last ==
    /\ At("lp_freeze")
    /\ g.finetune_forecast_trainer.model \in DOMAIN heap
    /\ g.param < NumBackbone
    /\ LET param == g.param + 1 IN
         /\ heap' = IF param = NumBackbone THEN heap
                    ELSE [heap EXCEPT ![g.finetune_forecast_trainer.model].grad[param] = FALSE]
         /\ g' = [g EXCEPT !.param = IF param = NumBackbone THEN 0 ELSE param]
         /\ pc' = IF param = NumBackbone THEN NextPc("lp_freeze") ELSE pc
    /\ calls' = calls \o (IF g.param = 0 THEN <<Call("parameters", <<>>)>> ELSE <<>>)
    /\ UNCHANGED <<config, raised, paths, ckpt, run, evals>>

\* for param in finetune_forecast_trainer.model.model.parameters():
\*     param.requires_grad = False
lp_freeze ==
    /\ At("lp_freeze")
    /\ g.finetune_forecast_trainer.model \in DOMAIN heap
    /\ g.param < NumBackbone
    /\ LET param == g.param + 1 IN
         /\ heap' = [heap EXCEPT ![g.finetune_forecast_trainer.model].grad[param] = FALSE]
         /\ g' = [g EXCEPT !.param = IF param = NumBackbone THEN 0 ELSE param]
         /\ pc' = IF param = NumBackbone THEN NextPc("lp_freeze") ELSE pc
    /\ calls' = calls \o (IF g.param = 0 THEN <<Call("parameters", <<>>)>> ELSE <<>>)
    /\ UNCHANGED <<config, raised, paths, ckpt, run, evals>>

\* finetune_forecast_trainer.train() of the linear-probing cell
lp_train_epoch == TrainEpoch("lp_train", g.finetune_forecast_trainer)
lp_train_end == TrainEnd("lp_train", g.finetune_forecast_trainer, FALSE)
lp_evaluate == Evaluate("lp_evaluate", g.finetune_forecast_trainer, g.test_dataset)

lp_makedirs == MakeDirs("lp_makedirs", LinearProbeDir(g.dataset))
lp_save_model == SaveModel("lp_save_model", g.finetune_forecast_trainer, g.save_dir, FALSE)

pp_makedirs == MakeDirs("pp_makedirs", PreprocessorDir(g.dataset))
\* time_series_preprocessor.save_pretrained(save_dir)
pp_save_pretrained ==
    /\ At("pp_save_pretrained")
    /\ paths' = paths \cup {g.save_dir}
    /\ calls' = calls \o <<Call("time_series_preprocessor.save_pretrained", <<g.save_dir>>)>>
    /\ pc' = NextPc("pp_save_pretrained")
    /\ UNCHANGED <<config, raised, ckpt, heap, g, run, evals>>

\* "Reload the model", a new Trainer, train, evaluate
ft_from_pretrained == FromPretrained("ft_from_pretrained", FinetuneLoadDir)
ft_trainer == NewFinetuneTrainer("ft_trainer", ft_trainer_model)
ft_train_epoch == TrainEpoch("ft_train", g.finetune_forecast_trainer)
ft_train_end == TrainEnd("ft_train", g.finetune_forecast_trainer, FALSE)
ft_evaluate == Evaluate("ft_evaluate", g.finetune_forecast_trainer, g.test_dataset)

ft_makedirs == MakeDirs("ft_makedirs", FineTuningDir(g.dataset))
ft_save_model == SaveModel("ft_save_model", g.finetune_forecast_trainer, g.save_dir, FALSE)

PatchNext ==
    \/ p_set_seed \/ p_read_csv \/ p_split
    \/ \E part \in Parts, split \in Splits : select_by_index(part, split)
    \/ \E part \in Parts : new_preprocessor(part)
    \/ \E part \in Parts : preprocessor_train(part)
    \/ \E part \in Parts, split \in Splits : forecast_dataset(part, split)
    \/ p_config \/ p_model \/ p_training_args
    \/ \E part \in {"p", "z"} : early_stopping(part)
    \/ p_trainer \/ p_train_epoch \/ p_train_end \/ p_evaluate
    \/ p_makedirs \/ p_save_model
    \/ e_indices \/ e_read_csv
    \/ z_from_pretrained \/ z_training_args \/ z_trainer \/ z_evaluate
    \/ lp_freeze \/ lp_train_epoch \/ lp_train_end \/ lp_evaluate
    \/ lp_makedirs \/ lp_save_model \/ pp_makedirs \/ pp_save_pretrained
    \/ ft_from_pretrained \/ ft_trainer \/ ft_train_epoch \/ ft_train_end \/ ft_evaluate
    \/ ft_makedirs \/ ft_save_model

(* ------------------------------- failure -------------------------------- *)
\* what the statement at l writes to disk
WriteTargets(l) ==
    IF l \in {"gms_fp_save", "gms_q_save"} THEN {TmpPt}
    ELSE IF l = "q_train" THEN {g.trainer.output_dir}
    ELSE IF l = "p_train" THEN {g.trainer.output_dir}
    ELSE IF l \in {"lp_train", "ft_train"} THEN {g.finetune_forecast_trainer.output_dir}
    ELSE IF l = "q_save_model" THEN {g.trainer.output_dir}
    ELSE IF l \in {"p_save_model", "lp_save_model", "pp_save_pretrained", "ft_save_model"}
         THEN {g.save_dir}
    ELSE IF l = "p_makedirs" THEN {SaveDirPretrain}
    ELSE IF l = "lp_makedirs" THEN {LinearProbeDir(g.dataset)}
    ELSE IF l = "pp_makedirs" THEN {PreprocessorDir(g.dataset)}
    ELSE IF l = "ft_makedirs" THEN {FineTuningDir(g.dataset)}
    ELSE {}

\* a finally clause removes the temporary file
PathsOnRaiseCleanup(ps, written) == (ps \cup written) \ {TmpPt}

\* no cell has a try/except/finally: what exists when a call raises stays
PathsOnRaise(ps, written) == ps \cup written

\* a library call raises: the exception leaves the cell and the run stops
\* there; the failing call may have written part of its output
Raise ==
    /\ ~raised
    /\ pc \notin PureStmts
    /\ \E written \in SUBSET WriteTargets(pc) : paths' = PathsOnRaise(paths, written)
    /\ raised' = TRUE
    /\ UNCHANGED <<config, pc, calls, ckpt, heap, g, run, evals>>

Next == QuantNext \/ PatchNext \/ Raise

Spec == Init /\ [][Next]_vars

\* every library call returns: the run of a notebook in which nothing raises.
\* The kernel runs the next statement whenever there is one.
NormalNext == QuantNext \/ PatchNext

NormalSpec == Init /\ [][NormalNext]_vars /\ WF_vars(NormalNext)

(* ============================== properties ============================== *)
Done == pc = "done"

\* positions in the call log of the calls named fn
CallsOf(fn) == {i \in DOMAIN calls : calls[i].fn = fn}

\* directories a save_model call that returned was given
SaveModelDirs == {calls[i].arg[1] : i \in CallsOf("save_model")}

(* C1: when every library call returns normally, the run of either notebook
   reaches the end of the notebook, and at that point a directory written by
   save_model exists. *)
C1_RunsToEndAndSaves ==
    <>(Done /\ \E d \in SaveModelDirs : d \in DOMAIN ckpt /\ d \in paths)

C1_Witness == Done /\ ~raised /\ SaveModelDirs # {} /\ DOMAIN ckpt # {}

(* ------------------------------- stages --------------------------------- *)
\* the pipeline stage of a statement: 1 load dataset, 2 load tokenizer or
\* preprocessor and prepare the data with it, 3 configure model and training
\* arguments, 4 instantiate the trainer, 5 train / evaluate, 6 save artifacts;
\* 0 for a statement that is no step of the pipeline
StageOf(l) ==
    IF l \in {"q_load_dataset", "q_load_metric", "p_read_csv", "e_read_csv",
              "p_select_train", "p_select_valid", "p_select_test",
              "e_select_train", "e_select_valid", "e_select_test"} THEN 1
    ELSE IF l \in {"q_tokenizer", "q_map", "p_preprocessor", "p_preprocessor_train",
                   "e_preprocessor", "e_preprocessor_train",
                   "p_dataset_train", "p_dataset_valid", "p_dataset_test",
                   "e_dataset_train", "e_dataset_valid", "e_dataset_test"} THEN 2
    ELSE IF l \in {"q_model", "q_qconfig", "q_args", "p_config", "p_model",
                   "p_training_args", "p_early_stopping", "z_from_pretrained",
                   "z_training_args", "z_early_stopping", "ft_from_pretrained"} THEN 3
    ELSE IF l \in {"q_trainer", "p_trainer", "z_trainer", "ft_trainer"} THEN 4
    ELSE IF l \in {"q_train", "q_evaluate", "p_train", "p_evaluate", "z_evaluate",
                   "lp_train", "lp_evaluate", "ft_train", "ft_evaluate"} THEN 5
    ELSE IF l \in {"q_save_model", "p_makedirs", "p_save_model", "lp_makedirs",
                   "lp_save_model", "pp_makedirs", "pp_save_pretrained",
                   "ft_makedirs", "ft_save_model"} THEN 6
    ELSE 0

\* positions in the call log of pipeline steps
Steps == {i \in DOMAIN calls : StageOf(calls[i].at) # 0}

InOrder(S) == \A i, j \in S : i < j => StageOf(calls[i].at) <= StageOf(calls[j].at)

\* the position of the first save_model call, or past the end of the log
FirstSave ==
    IF CallsOf("save_model") = {} THEN Len(calls) + 1
    ELSE CHOOSE i \in CallsOf("save_model") : \A j \in CallsOf("save_model") : i <= j

(* C2, as claimed: in both notebooks no step of a later stage runs before a
   step of an earlier stage. *)
C2_OneLinearOrder == InOrder(Steps)

(* C2, amended: up to and including the first save_model call the steps of
   both notebooks are in pipeline order, and by then every one of the six
   stages has been performed. *)
C2_PipelineUntilFirstSave ==
    /\ InOrder({i \in Steps : i <= FirstSave})
    /\ Done => \A stage \in 1..6 :
                 \E i \in Steps : i <= FirstSave /\ StageOf(calls[i].at) = stage

C2_Witness ==
    /\ Done /\ nb = "patchtst"
    /\ \E i, j \in Steps : i < j /\ StageOf(calls[i].at) = 6 /\ StageOf(calls[j].at) = 1

(* ------------------------- straight-line runs --------------------------- *)
Fns(seq) == [i \in DOMAIN seq |-> seq[i].fn]

IsCellCall(c) == c.by = "cell"
IsCellCallNotSample(c) == c.by = "cell" /\ c.at # "q_sample"

\* the library calls the statements of the cells make when the notebooks are
\* run as configured (task = "sst2"), read off the cells top to bottom
ExpectedQuantBeforeSample ==
    <<"load_dataset", "evaluate.load", "send_example_telemetry",
      "AutoTokenizer.from_pretrained">>

ExpectedQuantAfterSample ==
    <<"dataset.map", "AutoModelForSequenceClassification.from_pretrained",
      "QuantizationAwareTrainingConfig", "TrainingArguments",
      "select", "select", "INCTrainer", "copy.deepcopy", "train", "evaluate",
      "torch.save", "os.path.getsize", "os.remove",
      "torch.save", "os.path.getsize", "os.remove",
      "print", "print", "save_model",
      "INCModelForSequenceClassification.from_pretrained",
      "ORTModelForSequenceClassification.from_pretrained">>

ExpectedPrepare ==
    <<"select_by_index", "select_by_index", "select_by_index",
      "TimeSeriesPreprocessor", "time_series_preprocessor.train",
      "time_series_preprocessor.preprocess", "ForecastDFDataset",
      "time_series_preprocessor.preprocess", "ForecastDFDataset",
      "time_series_preprocessor.preprocess", "ForecastDFDataset">>

ExpectedPatch ==
    <<"set_seed", "pd.read_csv">> \o ExpectedPrepare \o
    <<"PatchTSTConfig", "PatchTSTForPrediction", "TrainingArguments",
      "EarlyStoppingCallback", "Trainer", "train", "evaluate",
      "os.makedirs", "save_model",
      "print", "pd.read_csv">> \o ExpectedPrepare \o
    <<"PatchTSTForPrediction.from_pretrained", "TrainingArguments",
      "EarlyStoppingCallback", "Trainer", "evaluate",
      "parameters", "train", "evaluate",
      "os.makedirs", "save_model",
      "os.makedirs", "time_series_preprocessor.save_pretrained",
      "PatchTSTForPrediction.from_pretrained", "Trainer", "train", "evaluate",
      "os.makedirs", "save_model">>

Expected(n) ==
    IF n = "quant"
    THEN ExpectedQuantBeforeSample \o <<"print">> \o ExpectedQuantAfterSample
    ELSE ExpectedPatch

ExpectedNotSample(n) ==
    IF n = "quant"
    THEN ExpectedQuantBeforeSample \o ExpectedQuantAfterSample
    ELSE ExpectedPatch

\* the calls compute_metrics made to turn predictions into labels or scores
PredictionCalls ==
    {i \in DOMAIN calls :
        calls[i].by = "callback" /\ calls[i].fn \in {"np.argmax", "ndarray.__getitem__"}}

(* C3, as claimed: the library calls made are the same on every run, whatever
   the configured task and the data: a finished run made exactly the calls of
   the run as configured, and compute_metrics made the same call each time. *)
C3_SameCallsOnEveryRun ==
    Done =>
      /\ Fns(SelectSeq(calls, IsCellCall)) = Expected(nb)
      /\ \A i \in PredictionCalls : calls[i].fn = "np.argmax"

(* C3, amended: the calls are the same on every run except for two branches
   on the configured task in the quantization notebook: the sample cell
   prints one sentence for a task with one sentence column and two for a
   task with two, and compute_metrics calls np.argmax for every task but
   stsb, for which it indexes the predictions instead.  Every other call a
   statement of a cell makes is the same, in the same order, on every run. *)
C3_StraightLineButTaskBranches ==
    Done =>
      /\ Fns(SelectSeq(calls, IsCellCallNotSample)) = ExpectedNotSample(nb)
      /\ nb = "quant" =>
           /\ Cardinality({i \in DOMAIN calls : calls[i].at = "q_sample"})
                = IF task_to_keys[task][2] = None THEN 1 ELSE 2
           /\ PredictionCalls # {}
           /\ \A i \in PredictionCalls :
                calls[i].fn = IF task = "stsb" THEN "ndarray.__getitem__" ELSE "np.argmax"

C3_Witness ==
    /\ Done /\ nb = "quant" /\ task = "stsb"
    /\ \E i \in PredictionCalls : calls[i].fn = "ndarray.__getitem__"
    /\ Cardinality({i \in DOMAIN calls : calls[i].at = "q_sample"}) = 2

(* --------------------------- error handling ----------------------------- *)
(* C4: nothing catches, translates or recovers from a failure.  No statement
   runs once a call has raised (no later statement of the cell, no retry);
   the step in which a call raises leaves the position, the call log, the
   names, the models and the saved directories as they are and removes
   nothing from disk; so the tmp.pt that get_model_size wrote is still there
   when getsize or remove raises, and the directory os.makedirs made is still
   there when the save_model after it raises. *)
C4_ErrorsPropagate ==
    /\ [][ /\ ~raised
           /\ raised' => /\ pc' = pc /\ calls' = calls /\ g' = g
                         /\ heap' = heap /\ ckpt' = ckpt
                         /\ paths \subseteq paths' ]_vars
    /\ [](raised /\ pc \in {"gms_fp_getsize", "gms_fp_remove",
                            "gms_q_getsize", "gms_q_remove"} => TmpPt \in paths)
    /\ [](raised /\ pc = "p_save_model" => SaveDirPretrain \in paths)

C4_Witness == raised /\ pc = "gms_q_getsize" /\ TmpPt \in paths

(* --------------------------- transfer learning -------------------------- *)
\* evaluate() calls on the ETTh1 test split, as positions in evals
TargetEvals == {i \in DOMAIN evals : evals[i].data.src = "ETTh1" /\ evals[i].data.split = "test"}

IsTargetEvaluate(c) == c.fn = "evaluate" /\ c.arg = <<"ETTh1", "test">>
IsTargetTrain(c) == c.fn = "train" /\ c.arg = <<"ETTh1">>

(* C5: zero-shot.  Every train() call on ETTh1 data comes after an
   evaluate(test_dataset) call on the ETTh1 test split, and the model the
   first of these evaluations evaluates is the one loaded from the directory
   the Electricity-pretrained model was saved to, with the weights saved
   there. *)
C5_ZeroShotBeforeTraining ==
    /\ \A k \in DOMAIN calls :
         IsTargetTrain(calls[k]) => \E j \in 1..(k - 1) : IsTargetEvaluate(calls[j])
    /\ \A i \in TargetEvals :
         (\A j \in TargetEvals : i <= j) =>
            /\ SaveDirPretrain \in DOMAIN ckpt
            /\ evals[i].from = SaveDirPretrain
            /\ evals[i].w = ckpt[SaveDirPretrain].w

C5_Witness ==
    /\ pc = "lp_train" /\ run.epoch = 1
    /\ TargetEvals # {}
    /\ \A i \in TargetEvals : evals[i].at = "z_evaluate" /\ evals[i].w[0] >= 1

(* C6: linear probing.  While the train() call of the linear-probing cell
   runs, no backbone parameter of the trainer's model requires gradients, and
   the backbone weights evaluated after linear probing are those evaluated
   zero-shot, in the same model object. *)
C6_BackboneFrozenWhileProbing ==
    /\ pc = "lp_train" =>
         \A p \in Backbone : ~heap[g.finetune_forecast_trainer.model].grad[p]
    /\ \A i, j \in DOMAIN evals :
         evals[i].at = "z_evaluate" /\ evals[j].at = "lp_evaluate" =>
            /\ evals[i].model = evals[j].model
            /\ \A p \in Backbone : evals[i].w[p] = evals[j].w[p]

C6_Witness ==
    \E i, j \in DOMAIN evals :
        /\ evals[i].at = "z_evaluate" /\ evals[j].at = "lp_evaluate"
        /\ evals[j].w[0] # evals[i].w[0]

(* C7: the full fine-tune trains a fresh load of the pretrain directory: the
   model of the fine-tuning train() call was read from that directory, is
   not the object that was linear-probed, has no frozen parameter, and
   starts from the weights saved in the pretrain directory. *)
C7_FineTuneStartsFromPretrained ==
    pc = "ft_train" =>
      LET id == g.finetune_forecast_trainer.model IN
        /\ \A p \in Params : heap[id].grad[p]
        /\ heap[id].from = SaveDirPretrain
        /\ run.epoch = 0 => heap[id].w = ckpt[SaveDirPretrain].w
        /\ \A j \in DOMAIN evals : evals[j].at = "lp_evaluate" => evals[j].model # id

C7_Witness ==
    /\ pc = "ft_train" /\ run.epoch = 0
    /\ \E j \in DOMAIN evals :
         /\ evals[j].at = "lp_evaluate"
         /\ evals[j].w[0] # ckpt[SaveDirPretrain].w[0]
         /\ \E p \in Backbone : ~heap[evals[j].model].grad[p]

(* ------------------------------ the splits ------------------------------ *)
\* the indices of the Electricity cell are the current ones
ElectricityIdx == g.data = "ECL" /\ g.dataset = "" /\ g.idx # NoIdx

(* C8: in the Electricity split and in the ETTh1 split alike, validation
   starts context_length rows before the end of training and test starts
   context_length rows before the end of validation, so the first forecast
   of a split (where its start is a row of the data) is the row after the
   preceding split; the frames select_by_index returns are cut accordingly. *)
C8_ShiftedBackByContext ==
    /\ g.idx # NoIdx =>
         /\ g.idx.valid_start = g.idx.train_end - context_length
         /\ g.idx.test_start = g.idx.valid_end - context_length
         /\ g.idx.valid_start >= 0 => FirstForecastRow(g.idx.valid_start) = g.idx.train_end
         /\ g.idx.test_start >= 0 => FirstForecastRow(g.idx.test_start) = g.idx.valid_end
    /\ g.valid_data # NoData /\ g.valid_data.src = g.train_data.src =>
         g.valid_data.start = <<g.train_data.end - context_length>>
    /\ g.test_data # NoData /\ g.test_data.src = g.valid_data.src =>
         g.test_data.start = <<g.valid_data.end - context_length>>

C8_Witness ==
    /\ pc = "e_read_csv" /\ dataLen = 26304
    /\ g.idx.valid_start = 8640 - 512 /\ g.idx.test_start = 11520 - 512
    /\ g.train_data.src = "ECL" /\ g.train_data.end = 18412
    /\ g.valid_data.start = <<17900>> /\ g.valid_data.end = 21044
    /\ g.test_data.start = <<20532>>

(* C9, as claimed: for every length of the Electricity dataframe the start
   and end index of each split are indices in the loaded data. *)
C9_IndicesInLoadedData ==
    ElectricityIdx =>
      /\ 0 <= g.idx.train_start[1] /\ g.idx.train_start[1] <= g.idx.train_end
      /\ g.idx.train_end <= dataLen
      /\ 0 <= g.idx.valid_start /\ g.idx.valid_start <= g.idx.valid_end
      /\ g.idx.valid_end <= dataLen
      /\ 0 <= g.idx.test_start /\ g.idx.test_start <= g.idx.test_end
      /\ g.idx.test_end <= dataLen

(* ---------------------------- saved and loaded --------------------------- *)
LocalLoads ==
    {"PatchTSTForPrediction.from_pretrained",
     "INCModelForSequenceClassification.from_pretrained",
     "ORTModelForSequenceClassification.from_pretrained"}

SavedBefore(dir, i) ==
    \E j \in 1..(i - 1) : calls[j].fn = "save_model" /\ calls[j].arg = <<dir>>

(* C10: a from_pretrained call that loads from a local directory comes after
   a save_model call that wrote that directory: when a load statement is
   about to run its directory has been written, both PatchTST reloads name
   the saved pretrain directory, and in the quantization notebook
   save_directory is the trainer's output_dir, written with the ONNX export. *)
C10_LoadedAfterSaved ==
    /\ \A i \in DOMAIN calls :
         calls[i].fn \in LocalLoads => SavedBefore(calls[i].arg[1], i)
    /\ pc = "z_from_pretrained" => SavedBefore(ZeroShotLoadDir, Len(calls) + 1)
    /\ pc = "ft_from_pretrained" => SavedBefore(FinetuneLoadDir, Len(calls) + 1)
    /\ pc \in {"q_load_inc", "q_load_ort"} =>
         /\ g.save_directory = g.trainer.output_dir
         /\ SavedBefore(g.save_directory, Len(calls) + 1)
         /\ g.save_directory \in DOMAIN ckpt /\ ckpt[g.save_directory].onnx

C10_Witness ==
    /\ Done
    /\ \/ Cardinality(CallsOf("PatchTSTForPrediction.from_pretrained")) = 2
       \/ /\ CallsOf("INCModelForSequenceClassification.from_pretrained") # {}
          /\ CallsOf("ORTModelForSequenceClassification.from_pretrained") # {}

(* ------------------------------ GLUE tasks ------------------------------ *)
\* names of the text columns of the GLUE datasets
SentenceColumns ==
    {"sentence", "premise", "hypothesis", "sentence1", "sentence2",
     "question", "question1", "question2"}

(* C11: task_to_keys has an entry for exactly the names in GLUE_TASKS; each
   entry is a pair of a first sentence column and either a second sentence
   column or None; so whatever task is configured, the sample cell's lookup
   task_to_keys[task] succeeds and binds sentence1_key to a column and
   sentence2_key to a column or None. *)
C11_KeysForEveryGlueTask ==
    /\ DOMAIN task_to_keys = Range(GLUE_TASKS)
    /\ \A t \in Range(GLUE_TASKS) :
         /\ Len(task_to_keys[t]) = 2
         /\ task_to_keys[t][1] \in SentenceColumns
         /\ task_to_keys[t][2] \in SentenceColumns \cup {None}
    /\ nb = "quant" => task \in DOMAIN task_to_keys
    /\ nb = "quant" /\ g.sentence1_key # "" =>
         /\ g.sentence1_key = task_to_keys[task][1]
         /\ g.sentence1_key \in SentenceColumns
         /\ g.sentence2_key = task_to_keys[task][2]
         /\ g.sentence2_key \in SentenceColumns \cup {None}

C11_Witness ==
    /\ nb = "quant" /\ task = "mnli-mm" /\ pc = "q_map"
    /\ g.sentence1_key = "premise" /\ g.sentence2_key = "hypothesis"

\* labels of the model AutoModelForSequenceClassification.from_pretrained
\* returns: the num_labels argument where one is passed, else the checkpoint's
ModelNumLabels(arg) == IF Len(arg) >= 2 THEN arg[2] ELSE checkpoint_num_labels

\* "always 2, except for STS-B which is a regression problem and MNLI where we
\* have 3 labels"
TaskNumLabels(t) ==
    IF t \in {"mnli", "mnli-mm"} THEN 3 ELSE IF t = "stsb" THEN 1 ELSE 2

(* C12, as claimed: the classification model is instantiated with the number
   of labels of the configured task: 3 for mnli and mnli-mm, 1 for stsb and 2
   for every other task of GLUE_TASKS. *)
C12_LabelsOfConfiguredTask ==
    \A i \in CallsOf("AutoModelForSequenceClassification.from_pretrained") :
        ModelNumLabels(calls[i].arg) = TaskNumLabels(task)

(* C13: the configuration name passed to load_dataset and to evaluate.load is
   "mnli" when task is "mnli-mm" and the task name otherwise; it is a GLUE
   task name and never the special code "mnli-mm"; dataset and metric are
   loaded under the same name. *)
C13_ActualTaskNeverSpecialCode ==
    /\ \A i \in CallsOf("load_dataset") \cup CallsOf("evaluate.load") :
         /\ calls[i].arg[1] = "glue"
         /\ calls[i].arg[2] = (IF task = "mnli-mm" THEN "mnli" ELSE task)
         /\ calls[i].arg[2] # "mnli-mm"
         /\ calls[i].arg[2] \in Range(GLUE_TASKS)
    /\ nb = "quant" /\ g.metric # "" => g.metric = g.dataset /\ g.metric # "mnli-mm"

C13_Witness ==
    /\ nb = "quant" /\ task = "mnli-mm"
    /\ \E i \in CallsOf("load_dataset") : calls[i].arg = <<"glue", "mnli">>
    /\ \E i \in CallsOf("evaluate.load") : calls[i].arg = <<"glue", "mnli">>

====
